---------------------------- MODULE Spec2Model ----------------------------
(***************************************************************************)
(* PAGA2.compute_transitions and paga() of scvelo/tools/paga.py.           *)
(*                                                                         *)
(* The velocity graph of the cells is cut at 0.1, masked by the final and  *)
(* root annotations, contracted along the cluster membership, turned into  *)
(* a net flow, normalised into a confidence matrix, pruned row by row, and *)
(* a threshold is derived from the pruned matrix.                          *)
(*                                                                         *)
(* Numbers.  Fine weights are counted in tenths (Unit tenths = 1.0).  A    *)
(* confidence v / sqrt(total_n[i] * total_n[j]) is a non-negative real; it *)
(* is kept exactly, as the reduced fraction p/q of its square, so that     *)
(* equal confidences are equal records and <, min and max are exact.       *)
(***************************************************************************)
EXTENDS Integers, FiniteSets, Sequences, TLC

\* ------------------------------------------------------------------ bounds
NObs == 3              \* cells of the full pipeline (adata.n_obs)
NGroups == 2           \* clusters of the full pipeline (len(cats))
MaxFineEdges == 3      \* stored entries of the velocity graph
MaxWeight == 2         \* largest stored weight, in tenths
NNeighbors == 1        \* self._neighbors.n_neighbors
PruneGroups == 4       \* clusters of the pruning specification
GroupSize == 2         \* cells per cluster in the pruning specification
MaxFlow == 3           \* largest net flow in the pruning specification

\* ------------------------------------------------------- program constants
Cutoff == 1            \* `> .1`, in tenths
Unit == 10             \* tenths per 1.0: a kept edge weighs True = 1.0
Epsilon == 1           \* `- 1e-6`, in units of 1e-6

\* absent values, one per kind of value
NoRoot == -1                    \* root = None
NoGraph == [shape |-> -1, w |-> <<>>]   \* key not in adata.uns
NoMatrix == <<>>                \* a local or attribute not assigned yet
NoEdges == {<<-1, -1>>}         \* vgraph not assigned yet
Unset == [unset |-> TRUE]       \* self.threshold not assigned yet
NaN == [nan |-> TRUE]           \* numpy's nan

VARIABLES
    pc,                     \* position in paga() / compute_transitions()
    n_obs,                  \* adata.n_obs
    uns_graph,              \* adata.uns[vkey + '_graph'], or None
    uns_legacy,             \* adata.uns['velocyto_transitions'], or None
    cats,                   \* clusters.cat.categories, as the codes 0..K-1
    clusters,               \* adata.obs[groups]: cell -> cluster code
    final_cells,            \* clusters named by the string categories of obs['final_cells']
    root_cells,             \* most common obs['root_cells'] (a cluster), or None
    vgraph,                 \* local vgraph
    root,                   \* local root
    sizes,                  \* vc.sizes()
    transitions,            \* local transitions
    transitions_conf,       \* local transitions_conf
    T,                      \* local T
    i,                      \* loop variable of the pruning loop
    transitions_confidence, \* self.transitions_confidence
    threshold,              \* self.threshold
    uns_paga                \* adata.uns['paga']

vars == <<pc, n_obs, uns_graph, uns_legacy, cats, clusters, final_cells, root_cells,
          vgraph, root, sizes, transitions, transitions_conf, T, i,
          transitions_confidence, threshold, uns_paga>>

\* ------------------------------------------------------------ real numbers
RECURSIVE GCD(_, _)
GCD(a, b) == IF b = 0 THEN a ELSE GCD(b, a % b)

Zero == [p |-> 0, q |-> 1]

\* the real number v / sqrt(ref2), v >= 0, as the reduced fraction of its square
Ratio(v, ref2) ==
    LET g == GCD(v * v, ref2)
    IN  [p |-> (v * v) \div g, q |-> ref2 \div g]

Lt(a, b) == a.p * b.q < b.p * a.q
Le(a, b) == ~Lt(b, a)
Positive(a) == Lt(Zero, a)

MaxOf(S) == CHOOSE x \in S : \A y \in S : Le(y, x)
MinOf(S) == CHOOSE x \in S : \A y \in S : Le(x, y)

RECURSIVE SumOver(_, _)
SumOver(S, f) ==
    IF S = {} THEN 0
    ELSE LET x == CHOOSE y \in S : TRUE IN f[x] + SumOver(S \ {x}, f)

\* ------------------------------------------------------- sparse matrices
Cells(n) == 0 .. (n - 1)

\* a square sparse matrix: its dimension and the weights of its stored entries
Matrix(n, w) == [shape |-> n, w |-> w]

\* a slip of line 82: >= in the place of >
AtOrAboveCutoff(g) == {e \in DOMAIN g.w : g.w[e] >= Cutoff}

\* self._adata.uns[vkey] > .1: a sparse boolean matrix, as the set of its
\* True entries
AboveCutoff(g) == {e \in DOMAIN g.w : g.w[e] > Cutoff}

\* a slip of line 87: the columns of the final cells are cleared
MaskRowsAsCols(m, rows) == {e \in m : e[2] \notin rows}

\* vgraph[rows] = 0; vgraph.eliminate_zeros()
MaskRows(m, rows) == {e \in m : e[1] \notin rows}

\* vgraph[:, cols] = 0; vgraph.eliminate_zeros()
MaskCols(m, cols) == {e \in m : e[2] \notin cols}

\* clusters.values.isin(final_cells)
SinkMembers(cl, final) == {u \in DOMAIN cl : cl[u] \in final}

\* clusters.values == root
RootMembers(cl, r) == {u \in DOMAIN cl : cl[u] = r}

\* get_igraph_from_adjacency: one edge per stored entry, each of weight True
get_igraph_from_adjacency(m) == m

\* igraph contract_vertices along the membership: the multigraph of the clusters
Contract(edges, membership, K) ==
    [a \in K |-> [b \in K |->
        Cardinality({e \in edges : membership[e[1]] = a /\ membership[e[2]] = b})]]

\* igraph simplify(combine_edges='sum'): parallel edges are summed, loops removed
Simplify(cg) ==
    [a \in DOMAIN cg |-> [b \in DOMAIN cg |-> IF a = b THEN 0 ELSE cg[a][b]]]

\* vc.cluster_graph(combine_edges='sum'), read back by get_sparse_from_igraph
cluster_graph(edges, membership, K) == Simplify(Contract(edges, membership, K))

\* vc.sizes()
vc_sizes(membership, K) ==
    [a \in K |-> Cardinality({u \in DOMAIN membership : membership[u] = a})]

\* transitions - transitions.T
Flow(cg) == [a \in DOMAIN cg |-> [b \in DOMAIN cg |-> cg[a][b] - cg[b][a]]]

\* total_n = n_neighbors * np.array(vc.sizes()) * 2
total_n(sz) == [a \in DOMAIN sz |-> NNeighbors * sz[a] * 2]

\* a slip of line 107: a negative flow is scored by its size
ConfidenceOfSize(flow, sz) ==
    [a \in DOMAIN flow |-> [b \in DOMAIN flow |->
        IF flow[a][b] = 0 THEN Zero
        ELSE Ratio(flow[a][b], (NNeighbors * sz[a] * 2) * (NNeighbors * sz[b] * 2))]]

\* transitions_conf[i, j] = 0 if v < 0 else v / reference, over the stored
\* entries of transitions; the others stay the zeros the copy had
Confidence(flow, sz) ==
    [a \in DOMAIN flow |-> [b \in DOMAIN flow |->
        IF flow[a][b] <= 0 THEN Zero
        ELSE Ratio(flow[a][b], total_n(sz)[a] * total_n(sz)[b])]]

Transpose(M) == [a \in DOMAIN M |-> [b \in DOMAIN M |-> M[b][a]]]

\* ------------------------------------------------------------- pruning
\* idx = T[i] > 0
Idx(M, r) == {j \in DOMAIN M : Positive(M[r][j])}

\* a slip of line 115: the two-hop path is not capped by its first hop
ClipNone(x, hi) == x

\* np.clip(x, None, hi)
Clip(x, hi) == IF Lt(hi, x) THEN hi ELSE x

\* indirect = np.clip(T[idx], None, T[i][idx][:, None]).max(0)
Indirect(M, r) ==
    [k \in DOMAIN M |-> MaxOf({Clip(M[j][k], M[r][j]) : j \in Idx(M, r)})]

\* a slip of line 116: the entry is raised to the indirect confidence
ZeroBelowRaised(row, indirect) ==
    [k \in DOMAIN row |-> IF Lt(row[k], indirect[k]) THEN indirect[k] ELSE row[k]]

\* a slip of line 116: the comparison is turned around
ZeroAbove(row, indirect) ==
    [k \in DOMAIN row |-> IF Lt(indirect[k], row[k]) THEN Zero ELSE row[k]]

\* T[i, T[i] < indirect] = 0
ZeroBelow(row, indirect) ==
    [k \in DOMAIN row |-> IF Lt(row[k], indirect[k]) THEN Zero ELSE row[k]]

\* the body of `for i in range(len(T))`
PruneRow(M, r) ==
    IF Idx(M, r) = {} THEN M
    ELSE [M EXCEPT ![r] = ZeroBelow(M[r], Indirect(M, r))]

\* ------------------------------------------------------------ threshold
\* the columns of df after df.pop(root)
Columns(M, r) == IF r = NoRoot THEN DOMAIN M ELSE DOMAIN M \ {r}

\* a slip of line 125: nanmin in the place of nanmax
ColMin(M, k) ==
    LET pos == {M[a][k] : a \in DOMAIN M} \ {Zero}
    IN  IF pos = {} THEN NaN ELSE MinOf(pos)

\* np.nanmax(df.values / (df.values > 0), axis=0)[k]
ColMax(M, k) ==
    LET pos == {M[a][k] : a \in DOMAIN M} \ {Zero}
    IN  IF pos = {} THEN NaN ELSE MaxOf(pos)

\* a slip of line 125: the epsilon is added
ThresholdPlus(M, r) ==
    LET defined == {ColMax(M, k) : k \in Columns(M, r)} \ {NaN}
    IN  IF defined = {} THEN NaN
        ELSE [base |-> MinOf(defined), minus |-> 0 - Epsilon]

\* a slip of line 125: no column with a positive entry gives 0, not nan
ThresholdZero(M, r) ==
    LET defined == {ColMax(M, k) : k \in Columns(M, r)} \ {NaN}
    IN  IF defined = {} THEN [base |-> Zero, minus |-> Epsilon]
        ELSE [base |-> MinOf(defined), minus |-> Epsilon]

\* np.nanmin(...) - 1e-6
Threshold(M, r) ==
    LET defined == {ColMax(M, k) : k \in Columns(M, r)} \ {NaN}
    IN  IF defined = {} THEN NaN
        ELSE [base |-> MinOf(defined), minus |-> Epsilon]

\* an entry is discarded by a filter at thr when it is < thr.  A comparison
\* with nan is false.  Two distinct confidences of the model differ by far
\* more than |minus| * 1e-6, so x < base - minus * 1e-6 is decided by x, base
\* and the sign of minus.
Discarded(x, thr) ==
    /\ thr # NaN
    /\ IF thr.minus >= 0 THEN Lt(x, thr.base) ELSE Le(x, thr.base)

\* ------------------------------------------------------------- actions
\* a slip of lines 74-78: the shape is not compared
CheckGraphAnyShape ==
    /\ pc = "check"
    /\ LET g == IF uns_graph # NoGraph THEN uns_graph ELSE uns_legacy
       IN  /\ g # NoGraph
           /\ uns_graph' = g
    /\ pc' = "mask_sink"
    /\ UNCHANGED <<n_obs, uns_legacy, cats, clusters, final_cells, root_cells,
                   vgraph, root, sizes, transitions, transitions_conf, T, i,
                   transitions_confidence, threshold, uns_paga>>

\* compute_transitions, lines 64-78: the graph is under its key, is taken from
\* the legacy key, or is missing; then its shape is compared with n_obs
CheckGraphOk ==
    /\ pc = "check"
    /\ LET g == IF uns_graph # NoGraph THEN uns_graph ELSE uns_legacy
       IN  /\ g # NoGraph
           /\ g.shape = n_obs
           /\ uns_graph' = g
    /\ pc' = "mask_sink"
    /\ UNCHANGED <<n_obs, uns_legacy, cats, clusters, final_cells, root_cells,
                   vgraph, root, sizes, transitions, transitions_conf, T, i,
                   transitions_confidence, threshold, uns_paga>>

\* line 70: raise ValueError, neither key is in adata.uns
RaiseMissing ==
    /\ pc = "check"
    /\ uns_graph = NoGraph
    /\ uns_legacy = NoGraph
    /\ pc' = "raised"
    /\ UNCHANGED <<n_obs, uns_graph, uns_legacy, cats, clusters, final_cells,
                   root_cells, vgraph, root, sizes, transitions,
                   transitions_conf, T, i, transitions_confidence, threshold,
                   uns_paga>>

\* line 75: raise ValueError, the shape is not (n_obs, n_obs); the legacy
\* graph has been copied under the key by then (line 67)
RaiseShape ==
    /\ pc = "check"
    /\ LET g == IF uns_graph # NoGraph THEN uns_graph ELSE uns_legacy
       IN  /\ g # NoGraph
           /\ g.shape # n_obs
           /\ uns_graph' = g
    /\ pc' = "raised"
    /\ UNCHANGED <<n_obs, uns_legacy, cats, clusters, final_cells, root_cells,
                   vgraph, root, sizes, transitions, transitions_conf, T, i,
                   transitions_confidence, threshold, uns_paga>>

\* lines 82-88: the cut at .1 and the rows of the final cells
MaskSink ==
    /\ pc = "mask_sink"
    /\ vgraph' = IF final_cells # {}
                 THEN MaskRows(AboveCutoff(uns_graph), SinkMembers(clusters, final_cells))
                 ELSE AboveCutoff(uns_graph)
    /\ pc' = "mask_root"
    /\ UNCHANGED <<n_obs, uns_graph, uns_legacy, cats, clusters, final_cells,
                   root_cells, root, sizes, transitions, transitions_conf, T, i,
                   transitions_confidence, threshold, uns_paga>>

\* lines 89-95: the root and the columns of its cells
MaskRoot ==
    /\ pc = "mask_root"
    /\ root' = root_cells
    /\ vgraph' = IF root_cells # NoRoot
                 THEN MaskCols(vgraph, RootMembers(clusters, root_cells))
                 ELSE vgraph
    /\ pc' = "aggregate"
    /\ UNCHANGED <<n_obs, uns_graph, uns_legacy, cats, clusters, final_cells,
                   root_cells, sizes, transitions, transitions_conf, T, i,
                   transitions_confidence, threshold, uns_paga>>

\* lines 96-100: the cluster graph of the masked graph
Aggregate ==
    /\ pc = "aggregate"
    /\ transitions' = cluster_graph(get_igraph_from_adjacency(vgraph), clusters, cats)
    /\ sizes' = vc_sizes(clusters, cats)
    /\ pc' = "normalize"
    /\ UNCHANGED <<n_obs, uns_graph, uns_legacy, cats, clusters, final_cells,
                   root_cells, vgraph, root, transitions_conf, T, i,
                   transitions_confidence, threshold, uns_paga>>

\* lines 101-111: the net flow, its confidence, and the dense copy T
Normalize ==
    /\ pc = "normalize"
    /\ transitions' = Flow(transitions)
    /\ transitions_conf' = Confidence(Flow(transitions), sizes)
    /\ T' = Confidence(Flow(transitions), sizes)
    /\ i' = 0
    /\ pc' = "prune"
    /\ UNCHANGED <<n_obs, uns_graph, uns_legacy, cats, clusters, final_cells,
                   root_cells, vgraph, root, sizes,
                   transitions_confidence, threshold, uns_paga>>

\* lines 112-116: one iteration of the pruning loop
PruneStep ==
    /\ pc = "prune"
    /\ i < Cardinality(cats)
    /\ T' = PruneRow(T, i)
    /\ i' = i + 1
    /\ UNCHANGED <<pc, n_obs, uns_graph, uns_legacy, cats, clusters, final_cells,
                   root_cells, vgraph, root, sizes, transitions,
                   transitions_conf, transitions_confidence, threshold, uns_paga>>

\* lines 117-125: the loop is over; the transposed result and the threshold
SetThreshold ==
    /\ pc = "prune"
    /\ i = Cardinality(cats)
    /\ transitions_conf' = T
    /\ transitions_confidence' = Transpose(T)
    /\ threshold' = Threshold(T, root)
    /\ pc' = "computed"
    /\ UNCHANGED <<n_obs, uns_graph, uns_legacy, cats, clusters, final_cells,
                   root_cells, vgraph, root, sizes, transitions, T, i, uns_paga>>

\* paga(), lines 203-204
Store ==
    /\ pc = "computed"
    /\ uns_paga' = [transitions_confidence |-> transitions_confidence,
                    threshold |-> threshold]
    /\ pc' = "done"
    /\ UNCHANGED <<n_obs, uns_graph, uns_legacy, cats, clusters, final_cells,
                   root_cells, vgraph, root, sizes, transitions,
                   transitions_conf, T, i, transitions_confidence, threshold>>

\* ------------------------------------------------- the full pipeline
Groups == 0 .. (NGroups - 1)

\* the graphs of a shape with at most MaxFineEdges stored entries, each of
\* a weight of 1 .. MaxWeight tenths
Graphs(n) ==
    UNION {{Matrix(n, w) : w \in [S -> 1 .. MaxWeight]} :
              S \in {R \in SUBSET (Cells(n) \X Cells(n)) : Cardinality(R) <= MaxFineEdges}}

\* a graph of another shape
BadGraph == Matrix(NObs - 1, <<>>)

\* paga() at line 202, about to call compute_transitions.  Every category
\* has a cell, and the root annotation names a cluster.
Init ==
    /\ pc = "check"
    /\ n_obs = NObs
    /\ cats = Groups
    /\ clusters \in {m \in [Cells(NObs) -> Groups] : \A a \in Groups : \E u \in Cells(NObs) : m[u] = a}
    /\ final_cells \in SUBSET Groups
    /\ root_cells \in Groups \cup {NoRoot}
    /\ \/ /\ uns_graph \in Graphs(NObs)
          /\ uns_legacy = NoGraph
       \/ /\ uns_graph = NoGraph
          /\ uns_legacy \in Graphs(NObs)
       \/ /\ uns_graph = NoGraph
          /\ uns_legacy \in {NoGraph, BadGraph}
       \/ /\ uns_graph = BadGraph
          /\ uns_legacy = NoGraph
    /\ vgraph = NoEdges
    /\ root = NoRoot
    /\ sizes = NoMatrix
    /\ transitions = NoMatrix
    /\ transitions_conf = NoMatrix
    /\ T = NoMatrix
    /\ i = 0
    /\ transitions_confidence = NoMatrix
    /\ threshold = Unset
    /\ uns_paga = [transitions_confidence |-> NoMatrix, threshold |-> Unset]

Next ==
    \/ CheckGraphOk
    \/ RaiseMissing
    \/ RaiseShape
    \/ MaskSink
    \/ MaskRoot
    \/ Aggregate
    \/ Normalize
    \/ PruneStep
    \/ SetThreshold
    \/ Store

Spec == Init /\ [][Next]_vars

\* ------------------------------------------- the pruning specification
\* The pipeline at line 112, on velocity graphs of PruneGroups clusters of
\* GroupSize cells each: between two clusters the edges run one way, up to
\* MaxFlow of them, no cell is final, and no edge enters the root cluster.
PGroups == 0 .. (PruneGroups - 1)
PCells == Cells(PruneGroups * GroupSize)
PClusters == [u \in PCells |-> u \div GroupSize]
Pairs == {e \in PGroups \X PGroups : e[1] < e[2]}
NetFlows == [Pairs -> (0 - MaxFlow) .. MaxFlow]

\* the number of edges from cluster a to cluster b
EdgesOf(f, a, b) ==
    IF a < b THEN f[<<a, b>>] ELSE IF b < a THEN 0 - f[<<b, a>>] ELSE 0

\* the velocity graph: the first EdgesOf(f, a, b) cell pairs of a \X b
FineOf(f) ==
    Matrix(PruneGroups * GroupSize,
           [e \in UNION {{<<c[1] * GroupSize + (k \div GroupSize),
                            c[2] * GroupSize + (k % GroupSize)>> :
                              k \in 0 .. (EdgesOf(f, c[1], c[2]) - 1)} :
                                 c \in PGroups \X PGroups}
               |-> MaxWeight])

\* the clusters no edge enters, and no root
RootsOf(f) ==
    {NoRoot} \cup {r \in PGroups : \A a \in PGroups : EdgesOf(f, a, r) <= 0}

InitPrune ==
    \E f \in NetFlows : \E r \in RootsOf(f) :
        /\ pc = "prune"
        /\ n_obs = PruneGroups * GroupSize
        /\ cats = PGroups
        /\ clusters = PClusters
        /\ final_cells = {}
        /\ root_cells = r
        /\ uns_graph = FineOf(f)
        /\ uns_legacy = NoGraph
        /\ vgraph = AboveCutoff(uns_graph)
        /\ root = r
        /\ sizes = vc_sizes(PClusters, PGroups)
        /\ transitions = [a \in PGroups |-> [b \in PGroups |-> EdgesOf(f, a, b)]]
        /\ transitions_conf = Confidence(transitions, sizes)
        /\ T = transitions_conf
        /\ i = 0
        /\ transitions_confidence = NoMatrix
        /\ threshold = Unset
        /\ uns_paga = [transitions_confidence |-> NoMatrix, threshold |-> Unset]

NextPrune ==
    \/ PruneStep
    \/ SetThreshold

SpecPrune == InitPrune /\ [][NextPrune]_vars

\* the initial states of SpecPrune are the states lines 64-111 reach on the
\* velocity graph they hold
EntryIsPipeline ==
    (pc = "prune" /\ i = 0) =>
        LET masked == MaskCols(MaskRows(AboveCutoff(uns_graph),
                                        SinkMembers(clusters, final_cells)),
                               RootMembers(clusters, root_cells))
            cg == cluster_graph(get_igraph_from_adjacency(masked), clusters, cats)
        IN  /\ uns_graph.shape = n_obs
            /\ vgraph = masked
            /\ root = root_cells
            /\ sizes = vc_sizes(clusters, cats)
            /\ transitions = Flow(cg)
            /\ transitions_conf = Confidence(Flow(cg), sizes)
            /\ T = transitions_conf

\* ------------------------------------------------------------ the loop
\* `for i in range(len(T))` from row r on, as a function of the matrix
RECURSIVE PruneFrom(_, _)
PruneFrom(M, r) ==
    IF r >= Cardinality(DOMAIN M) THEN M ELSE PruneFrom(PruneRow(M, r), r + 1)

LoopDone == pc = "prune" /\ i = Cardinality(cats)

Min2(x, y) == IF Lt(y, x) THEN y ELSE x

\* ------------------------------------------------------------- claims
\* C1 as stated: after the entries strictly below the threshold are
\* discarded, every cluster but the root has a positive entry left in its
\* column of the pruned matrix.
EveryNonRootKeepsIncoming ==
    pc = "computed" =>
        \A k \in cats \ {root} :
            \E a \in cats : Positive(T[a][k]) /\ ~Discarded(T[a][k], threshold)

\* C1 amended: after the entries strictly below the threshold are discarded,
\* every cluster but the root that has a positive entry in its column of the
\* confidence matrix has a positive entry left in its column of the pruned
\* matrix.
ThresholdKeepsIncoming ==
    pc = "computed" =>
        \A k \in cats \ {root} :
            (\E a \in cats : Positive(Confidence(transitions, sizes)[a][k]))
                => \E a \in cats : Positive(T[a][k]) /\ ~Discarded(T[a][k], threshold)

\* a threshold that discards a positive entry of a matrix the loop has pruned
ThresholdDiscardsWitness ==
    /\ pc = "computed"
    /\ T # Confidence(transitions, sizes)
    /\ \E a, k \in cats : Positive(T[a][k]) /\ Discarded(T[a][k], threshold)

\* C2: the pruning loop run again on the matrix it produced changes no entry.
PruningIdempotent == LoopDone => PruneFrom(T, 0) = T

\* the loop is over and has removed an entry
PrunedWitness == LoopDone /\ T # transitions_conf

\* C3: no entry is larger after the loop than before; every entry is the
\* one before the loop, or 0.
PruningNeverIncreases ==
    pc = "prune" =>
        \A a, b \in cats :
            /\ Le(T[a][b], transitions_conf[a][b])
            /\ T[a][b] = transitions_conf[a][b] \/ T[a][b] = Zero

\* the loop is over and a positive entry has become 0
EntryZeroedWitness ==
    /\ LoopDone
    /\ \E a, b \in cats : T[a][b] = Zero /\ Positive(transitions_conf[a][b])

\* C9 as stated: the loop's result is the one computed row by row from the
\* matrix as it was at entry: entry (a, k) is 0 exactly when some j with
\* C[a][j] > 0 has C[a][k] < min(C[j][k], C[a][j]).
RowsDecidedFromEntryMatrix ==
    LoopDone =>
        \A a, k \in cats :
            T[a][k] =
                IF \E j \in cats :
                       /\ Positive(transitions_conf[a][j])
                       /\ Lt(transitions_conf[a][k],
                             Min2(transitions_conf[j][k], transitions_conf[a][j]))
                THEN Zero ELSE transitions_conf[a][k]

\* C9 amended: row a is decided from the matrix as the loop has left it when
\* it reaches row a: the rows before a pruned, the rows from a on as at entry.
RowsDecidedFromMatrixSoFar ==
    LoopDone =>
        \A a, k \in cats :
            T[a][k] =
                IF \E j \in cats :
                       /\ Positive(transitions_conf[a][j])
                       /\ Lt(transitions_conf[a][k],
                             Min2(IF j < a THEN T[j][k] ELSE transitions_conf[j][k],
                                  transitions_conf[a][j]))
                THEN Zero ELSE transitions_conf[a][k]

\* an entry that the matrix at entry would have pruned, kept because the
\* row it was dominated through had been pruned before
OrderMattersWitness ==
    /\ LoopDone
    /\ \E a, k \in cats :
           /\ Positive(T[a][k])
           /\ \E j \in cats :
                  /\ Positive(transitions_conf[a][j])
                  /\ Lt(transitions_conf[a][k],
                        Min2(transitions_conf[j][k], transitions_conf[a][j]))

\* C10: the threshold is assigned only once the loop has passed every row,
\* and is the least, over the columns but the root's that hold a positive
\* entry of the pruned matrix, of the largest entry of the column, minus the
\* epsilon.
ThresholdFromPrunedMatrix ==
    threshold # Unset =>
        /\ pc = "computed"
        /\ i = Cardinality(cats)
        /\ LET cols == {k \in cats \ {root} : \E a \in cats : Positive(T[a][k])}
           IN  IF cols = {} THEN threshold = NaN
               ELSE /\ threshold # NaN
                    /\ threshold.minus = Epsilon
                    /\ \E k \in cols :
                           /\ \E a \in cats : T[a][k] = threshold.base
                           /\ \A a \in cats : Le(T[a][k], threshold.base)
                    /\ \A k \in cols : \E a \in cats : Le(threshold.base, T[a][k])

\* a numeric threshold of a matrix that lost an entry in the loop and has a
\* column with two positive entries
ThresholdWitness ==
    /\ pc = "computed"
    /\ threshold # NaN
    /\ T # Confidence(transitions, sizes)
    /\ \E k \in cats \ {root} : \E a, b \in cats :
           Positive(T[a][k]) /\ Lt(T[a][k], T[b][k])

\* the stored entries of the velocity graph above the cut, from cluster a
\* to cluster b, whose source is in no cluster of srcs and whose target is
\* in no cluster of tgts
FineEdges(a, b, srcs, tgts) ==
    {e \in DOMAIN uns_graph.w :
        /\ uns_graph.w[e] > Cutoff
        /\ clusters[e[1]] = a /\ clusters[e[2]] = b
        /\ clusters[e[1]] \notin srcs /\ clusters[e[2]] \notin tgts}

Weight == [e \in DOMAIN uns_graph.w |-> uns_graph.w[e]]

Aggregated == pc = "normalize"
Unmasked == final_cells = {} /\ root_cells = NoRoot
RootSet == IF root_cells = NoRoot THEN {} ELSE {root_cells}
Masked == final_cells # {} \/ root_cells # NoRoot

\* C4 as stated: without masks, the entry (a, b) of the cluster graph is the
\* sum of the weights of the edges from a to b, the diagonal included.
MassConserved ==
    (Aggregated /\ Unmasked) =>
        \A a, b \in cats :
            transitions[a][b] * Unit = SumOver(FineEdges(a, b, {}, {}), Weight)

\* C4 amended: without masks, the entry (a, b), a # b, of the cluster graph
\* is the number of the edges above the cut from a to b, each counted as 1
\* whatever its weight; the diagonal is 0.
EdgesCounted ==
    (Aggregated /\ Unmasked) =>
        \A a, b \in cats :
            transitions[a][b] =
                IF a = b THEN 0 ELSE Cardinality(FineEdges(a, b, {}, {}))

\* no masks, an edge within a cluster, an edge at the cut and an edge above
\* it between two clusters
EdgesCountedWitness ==
    /\ Aggregated /\ Unmasked
    /\ \E a \in cats : FineEdges(a, a, {}, {}) # {}
    /\ \E a, b \in cats : a # b /\ transitions[a][b] > 0
    /\ \E e \in DOMAIN uns_graph.w :
           uns_graph.w[e] = Cutoff /\ clusters[e[1]] # clusters[e[2]]

\* C5 as stated: with a mask given, no edge out of a final cell and no edge
\* into a root cell is in the cluster graph, and every other edge above the
\* cut is.
MaskedOnlyByNode ==
    (Aggregated /\ Masked) =>
        \A a, b \in cats :
            transitions[a][b] = Cardinality(FineEdges(a, b, final_cells, RootSet))

\* C5 amended: with a mask given, no edge out of a final cell and no edge
\* into a root cell is in the cluster graph, every other edge above the cut
\* between two clusters is, and no edge within a cluster is.
MaskedByNode ==
    (Aggregated /\ Masked) =>
        \A a, b \in cats :
            transitions[a][b] =
                IF a = b THEN 0
                ELSE Cardinality(FineEdges(a, b, final_cells, RootSet))

\* both masks given, the root not final; an edge out of a final cell into
\* another cluster, an edge into a root cell from a cell that is not final,
\* and an edge that stays
MaskedWitness ==
    /\ Aggregated
    /\ final_cells # {} /\ root_cells # NoRoot /\ root_cells \notin final_cells
    /\ \E e \in DOMAIN uns_graph.w :
           /\ uns_graph.w[e] > Cutoff
           /\ clusters[e[1]] \in final_cells
           /\ clusters[e[1]] # clusters[e[2]]
    /\ \E e \in DOMAIN uns_graph.w :
           /\ uns_graph.w[e] > Cutoff
           /\ clusters[e[2]] = root_cells
           /\ clusters[e[1]] \notin final_cells
    /\ \E a, b \in cats : transitions[a][b] > 0

\* C6: the flow is skew-symmetric; no entry of the confidence matrix is
\* negative; an entry is positive exactly when the net flow of the cluster
\* graph is; of two opposite entries at most one is positive; the diagonal
\* is 0.
ConfidenceFollowsFlow ==
    (pc = "prune" /\ i = 0) =>
        LET cg == cluster_graph(get_igraph_from_adjacency(vgraph), clusters, cats)
        IN  \A a, b \in cats :
                /\ transitions[a][b] = 0 - transitions[b][a]
                /\ Le(Zero, transitions_conf[a][b])
                /\ Positive(transitions_conf[a][b]) <=> cg[a][b] - cg[b][a] > 0
                /\ ~(Positive(transitions_conf[a][b]) /\ Positive(transitions_conf[b][a]))
                /\ transitions_conf[a][a] = Zero

\* edges both ways between two clusters, more of them one way
NetFlowWitness ==
    /\ pc = "prune" /\ i = 0
    /\ LET cg == cluster_graph(get_igraph_from_adjacency(vgraph), clusters, cats)
       IN  \E a, b \in cats :
               /\ cg[b][a] > 0
               /\ cg[a][b] > cg[b][a]
               /\ Positive(transitions_conf[a][b])

NothingSet ==
    /\ vgraph = NoEdges
    /\ root = NoRoot
    /\ sizes = NoMatrix
    /\ transitions = NoMatrix
    /\ transitions_conf = NoMatrix
    /\ T = NoMatrix
    /\ transitions_confidence = NoMatrix
    /\ threshold = Unset
    /\ uns_paga = [transitions_confidence |-> NoMatrix, threshold |-> Unset]

BadGraphRaises ==
    LET g == IF uns_graph # NoGraph THEN uns_graph ELSE uns_legacy
    IN  /\ (g = NoGraph \/ g.shape # n_obs) => (pc \in {"check", "raised"} /\ NothingSet)
        /\ pc = "raised" => (g = NoGraph \/ g.shape # n_obs)

\* the call has raised on a legacy graph of another shape
RaisedWitness ==
    /\ pc = "raised"
    /\ uns_legacy # NoGraph
    /\ uns_graph = uns_legacy

=============================================================================
